---- MODULE Spec2Model ----
(***************************************************************************)
(* State machine of TextInputPlugin (text_input_plugin.cc): the session    *)
(* controller that routes protocol method calls, hardware key events and   *)
(* Maliit IME callbacks to one TextInputModel and reports changes on the   *)
(* "flutter/textinput" channel.                                            *)
(*                                                                         *)
(* TextInputModel itself (text_input_model.cc) is not among the sources;   *)
(* its operations are modelled from section 4.1 of the specification.      *)
(* Where that section is silent (an offset outside the text handed to an   *)
(* edit), the offset is clamped to [0, len] before it is used.             *)
(***************************************************************************)
EXTENDS Integers, Sequences, FiniteSets, TLC

\* ------------------------------------------------------------- bounds
\* Longest text of the scripted run of SpecScenario.
MaxLen == 2
\* Events of the arbitrary history that opens a run of SpecScenario.
PriorSteps == 4

\* ------------------------------------------------------------- constants
Key_Escape == 16777216
Key_Tab == 16777217
Key_Backspace == 16777219
Key_Return == 16777220
Key_Enter == 16777221
Key_Insert == 16777222
Key_Delete == 16777223
Key_Pause == 16777224
Key_Home == 16777232
Key_End == 16777233
Key_Left == 16777234
Key_Up == 16777235
Key_Right == 16777236
Key_Down == 16777237
Key_PageUp == 16777238
Key_PageDown == 16777239
KeyPress == 6
KeyRelease == 7

kSetEditingStateMethod == "TextInput.setEditingState"
kClearClientMethod == "TextInput.clearClient"
kSetClientMethod == "TextInput.setClient"
kShowMethod == "TextInput.show"
kHideMethod == "TextInput.hide"
kMultilineInputType == "TextInputType.multiline"
kUpdateEditingStateMethod == "TextInputClient.updateEditingState"
kPerformActionMethod == "TextInputClient.performAction"
kBadArgumentError == "Bad Arguments"
kInternalConsistencyError == "Internal Consistency Error"
\* The outcomes of MethodResult other than the two error codes.
kSuccess == "Success"
kNotImplemented == "NotImplemented"

\* <linux/input-event-codes.h>
KEY_ESC == 1
KEY_BACKSPACE == 14
KEY_TAB == 15
KEY_ENTER == 28
KEY_A == 30
KEY_HOME == 102
KEY_UP == 103
KEY_PAGEUP == 104
KEY_LEFT == 105
KEY_RIGHT == 106
KEY_END == 107
KEY_DOWN == 108
KEY_PAGEDOWN == 109
KEY_INSERT == 110
KEY_DELETE == 111
KEY_PAUSE == 119

\* The code point EnterPressed inserts: '\n'.
CP_newline == 10

\* QtKeyToLinuxEvent: the static table, as a function on its keys.
QtKeyToLinuxEvent ==
  (Key_Escape :> KEY_ESC) @@ (Key_Tab :> KEY_TAB) @@
  (Key_Backspace :> KEY_BACKSPACE) @@ (Key_Return :> KEY_ENTER) @@
  (Key_Enter :> KEY_ENTER) @@ (Key_Insert :> KEY_INSERT) @@
  (Key_Delete :> KEY_DELETE) @@ (Key_Pause :> KEY_PAUSE) @@
  (Key_Home :> KEY_HOME) @@ (Key_End :> KEY_END) @@
  (Key_Left :> KEY_LEFT) @@ (Key_Up :> KEY_UP) @@
  (Key_Right :> KEY_RIGHT) @@ (Key_Down :> KEY_DOWN) @@
  (Key_PageUp :> KEY_PAGEUP) @@ (Key_PageDown :> KEY_PAGEDOWN)

\* ------------------------------------------------------------- state
VARIABLES
  active_model,    \* <<>> (nullptr) or <<m>>, m the TextInputModel record
  client_id,       \* client_id_
  input_action,    \* input_action_
  input_type,      \* input_type_
  maliit_server,   \* maliit_server_ is non-null
  maliit_context,  \* maliit_context_ is non-null (its signals are subscribed)
  connect,         \* which of the two endpoints the IME service answers for
  channel,         \* notifications the last event sent, in InvokeMethod order
  result,          \* MethodResult of the last method call ("" for other events)
  host_calls,      \* delegate and IME calls the last event issued, in order
  event,           \* the last event handled
  scenario         \* progress of the scripted run of SpecScenario

pvars == <<active_model, client_id, input_action, input_type, maliit_server,
           maliit_context, connect, channel, result, host_calls, event>>
vars == <<active_model, client_id, input_action, input_type, maliit_server,
          maliit_context, connect, channel, result, host_calls, event, scenario>>

\* ------------------------------------------------------------- TextRange
TextRange(base, extent) == [base |-> base, extent |-> extent]

Min(a, b) == IF a < b THEN a ELSE b
Max(a, b) == IF a < b THEN b ELSE a
Clamp(i, lo, hi) == IF i < lo THEN lo ELSE IF i > hi THEN hi ELSE i

collapsed(range) == range.base = range.extent

\* ------------------------------------------------------------- TextInputModel
\* A freshly constructed model: empty text, caret 0, not composing.
TextInputModel ==
  [text |-> <<>>, selection |-> TextRange(0, 0),
   composing |-> FALSE, composing_range |-> <<>>]

\* Start and end of a range within the text of m.
RangeStart(m, range) == Clamp(Min(range.base, range.extent), 0, Len(m.text))
RangeEnd(m, range) == Clamp(Max(range.base, range.extent), 0, Len(m.text))
\* The caret of a collapsed selection, within the text of m.
CaretOf(m) == Clamp(m.selection.extent, 0, Len(m.text))

\* text with [from, to) replaced by s (offsets count code points from 0).
Splice(text, from, to, s) ==
  SubSeq(text, 1, from) \o s \o SubSeq(text, to + 1, Len(text))

SetText(m, s) == [m EXCEPT !.text = s]

SetSelection(m, range) == [m EXCEPT !.selection = range]

\* Each Move/Backspace/Delete yields the new model and whether it changed.
Moved(m, pos) ==
  [model |-> [m EXCEPT !.selection = TextRange(pos, pos)],
   changed |-> m.selection # TextRange(pos, pos)]

MoveCursorBack(m) == Moved(m, Clamp(m.selection.base - 1, 0, Len(m.text)))

MoveCursorForward(m) == Moved(m, Clamp(m.selection.base + 1, 0, Len(m.text)))

MoveCursorToBeginning(m) == Moved(m, 0)

MoveCursorToEnd(m) == Moved(m, Len(m.text))

DeleteSelected(m) ==
  LET s == RangeStart(m, m.selection)
      e == RangeEnd(m, m.selection)
  IN [m EXCEPT !.text = Splice(m.text, s, e, <<>>),
               !.selection = TextRange(s, s)]

Backspace(m) ==
  IF ~collapsed(m.selection)
    THEN [model |-> DeleteSelected(m), changed |-> TRUE]
    ELSE LET c == CaretOf(m)
         IN IF c = 0
              THEN [model |-> m, changed |-> FALSE]
              ELSE [model |-> [m EXCEPT !.text = Splice(m.text, c - 1, c, <<>>),
                                        !.selection = TextRange(c - 1, c - 1)],
                    changed |-> TRUE]

Delete(m) ==
  IF ~collapsed(m.selection)
    THEN [model |-> DeleteSelected(m), changed |-> TRUE]
    ELSE LET c == CaretOf(m)
         IN IF c = Len(m.text)
              THEN [model |-> m, changed |-> FALSE]
              ELSE [model |-> [m EXCEPT !.text = Splice(m.text, c, c + 1, <<>>),
                                        !.selection = TextRange(c, c)],
                    changed |-> TRUE]

AddText(m, s) ==
  LET from == IF collapsed(m.selection) THEN CaretOf(m)
              ELSE RangeStart(m, m.selection)
      to == IF collapsed(m.selection) THEN CaretOf(m)
            ELSE RangeEnd(m, m.selection)
  IN [m EXCEPT !.text = Splice(m.text, from, to, s),
               !.selection = TextRange(from + Len(s), from + Len(s))]

AddCodePoint(m, c) == AddText(m, <<c>>)

BeginComposing(m) ==
  [m EXCEPT !.composing = TRUE,
            !.composing_range =
               <<TextRange(m.selection.extent, m.selection.extent)>>]

UpdateComposingText(m, s) ==
  IF ~m.composing \/ m.composing_range = <<>>
    THEN m
    ELSE LET from == RangeStart(m, m.composing_range[1])
             to == RangeEnd(m, m.composing_range[1])
         IN [m EXCEPT !.text = Splice(m.text, from, to, s),
                      !.composing_range = <<TextRange(from, from + Len(s))>>,
                      !.selection = TextRange(from + Len(s), from + Len(s))]

\* EndComposing clearing the composing flag and leaving the range.
EndComposing_keeps_range(m) == [m EXCEPT !.composing = FALSE]

EndComposing(m) ==
  [m EXCEPT !.composing = FALSE, !.composing_range = <<>>]

\* ------------------------------------------------------------- inputs
\* The text "hihi..." of length n: 'h' is 104, 'i' is 105.
HiText(n) == [i \in 1..n |-> IF i % 2 = 1 THEN 104 ELSE 105]

\* A JSON member is <<"missing">>, <<"null">> or <<kind, value>>.
Missing == <<"missing">>
JNull == <<"null">>
JInt(n) == <<"int", n>>
JString(s) == <<"string", s>>
JObject(o) == <<"object", o>>

ClientIds == {5, 7}
\* args[0] of setClient.
ClientIdArgs == {JNull} \cup {JInt(c) : c \in ClientIds}
\* The config object of setClient: its two members.
Config(inputAction, inputType) ==
  JObject([inputAction |-> inputAction, inputType |-> inputType])
InputTypeName(name) == JObject([name |-> name])
\* args[1] of setClient: null; every config whose members are absent or
\* well-typed; and one config for each way a member can be wrong-typed.
ClientConfigArgs ==
  {JNull} \cup
  {Config(a, t) :
     a \in {Missing, JString("TextInputAction.done")},
     t \in {Missing, InputTypeName(JString(kMultilineInputType))}} \cup
  {Config(JInt(1), Missing),
   Config(Missing, JString(kMultilineInputType)),
   Config(JString("TextInputAction.done"), InputTypeName(Missing)),
   Config(JString("TextInputAction.done"), InputTypeName(JInt(1)))}
\* The arguments document of a call: <<>> when absent or null, else <<document>>.
SetClientArgs ==
  {<<>>} \cup
  {<<[id |-> JInt(c), config |-> cfg]>> : c \in ClientIds, cfg \in ClientConfigArgs} \cup
  {<<[id |-> JNull, config |-> cfg]>> : cfg \in {JNull, Config(Missing, Missing)}}

\* Lengths of the texts the framework and the IME send: "", "h" and "hi".
TextLengths == {0, 1, 2}
\* Selection bounds sent with a text of length n: the sentinel -1, both ends
\* of the text and one past its end.
BoundsFor(n) == {-1, 0, n, n + 1}
\* Pairs of bounds the framework sends with a text of length n: the sentinel,
\* a caret at either end, the whole text selected forwards and backwards, one
\* bound -1, and a bound past the end.
SelectionPairs(n) ==
  {<<-1, -1>>, <<0, 0>>, <<n, n>>, <<0, n>>, <<n, 0>>, <<-1, n>>,
   <<n + 1, n + 1>>, <<0, n + 1>>}
\* setEditingState documents: every text with every such pair of bounds, and
\* one document for each way a member can be absent or null.
EditingState(t, b, e) == <<[text |-> t, selectionBase |-> b, selectionExtent |-> e]>>
SetEditingStateArgs ==
  {<<>>} \cup
  UNION {{EditingState(JString(HiText(n)), JInt(p[1]), JInt(p[2])) :
            p \in SelectionPairs(n)} : n \in TextLengths} \cup
  {EditingState(t, JInt(0), JInt(0)) : t \in {Missing, JNull}} \cup
  {EditingState(JString(HiText(1)), b, JInt(0)) : b \in {Missing, JNull}} \cup
  {EditingState(JString(HiText(1)), JInt(0), e) : e \in {Missing, JNull}} \cup
  {EditingState(t, b, b) : t \in {Missing, JNull}, b \in {Missing, JNull}}

\* Hardware key events <<keycode, code_point>>: every code of the dispatch and
\* a code outside it without a code point, a printable key ('h'), and ENTER
\* and LEFT delivered with a code point.
KeyInputs ==
  {<<k, 0>> : k \in {KEY_LEFT, KEY_RIGHT, KEY_END, KEY_HOME, KEY_BACKSPACE,
                     KEY_DELETE, KEY_ENTER, KEY_A}} \cup
  {<<KEY_A, 104>>, <<KEY_ENTER, 13>>, <<KEY_LEFT, 104>>}

\* Strings the IME commits or sends as preedit.
IMEStrings == {HiText(n) : n \in TextLengths}
\* IME key events <<type, key>>: a press of every key of the table and of one
\* symbol outside it ('A'), and a release of three of them.
KeyEventInputs ==
  {<<KeyPress, key>> : key \in (DOMAIN QtKeyToLinuxEvent) \cup {65}} \cup
  {<<KeyRelease, key>> : key \in {Key_Backspace, Key_Return, 65}}

\* ------------------------------------------------------------- TextInputPlugin
\* An outbound notification: state is <<editing state>> for updateEditingState,
\* action is <<inputAction>> for performAction, and <<>> otherwise.
Notification(method, id, state, action) ==
  [method |-> method, clientId |-> id, state |-> state, action |-> action]

\* A call to the delegate or to the IME server, with its argument or its outcome.
HostCall(name, arg) == [name |-> name, arg |-> arg]

\* What handling one event leaves behind; Unchanged is an event that does nothing.
Unchanged ==
  [active_model |-> active_model, client_id |-> client_id,
   input_action |-> input_action, input_type |-> input_type,
   channel |-> <<>>, result |-> "", host_calls |-> <<>>]

SendStateUpdate(model) ==
  Notification(kUpdateEditingStateMethod, client_id,
    <<[composingBase |-> -1, composingExtent |-> -1,
       selectionAffinity |-> "TextAffinity.downstream",
       selectionBase |-> model.selection.base,
       selectionExtent |-> model.selection.extent,
       selectionIsDirectional |-> FALSE,
       text |-> model.text]>>,
    <<>>)

PerformAction ==
  Notification(kPerformActionMethod, client_id, <<>>, <<input_action>>)

\* EnterPressed sending performAction before the state update.
EnterPressed_action_first(model) ==
  IF input_type = kMultilineInputType
    THEN [model |-> AddCodePoint(model, CP_newline),
          channel |-> <<PerformAction,
                        SendStateUpdate(AddCodePoint(model, CP_newline))>>]
    ELSE [model |-> model, channel |-> <<PerformAction>>]

\* EnterPressed: the model afterwards and the notifications sent, in order.
EnterPressed(model) ==
  IF input_type = kMultilineInputType
    THEN [model |-> AddCodePoint(model, CP_newline),
          channel |-> <<SendStateUpdate(AddCodePoint(model, CP_newline)),
                        PerformAction>>]
    ELSE [model |-> model, channel |-> <<PerformAction>>]

\* The switch with the operations of KEY_LEFT and KEY_RIGHT exchanged.
KeySwitch_left_right(model, keycode, code_point) ==
  LET op(r) == [model |-> r.model, changed |-> r.changed, channel |-> <<>>]
  IN CASE keycode = KEY_LEFT -> op(MoveCursorForward(model))
       [] keycode = KEY_RIGHT -> op(MoveCursorBack(model))
       [] keycode = KEY_END -> op(MoveCursorToEnd(model))
       [] keycode = KEY_HOME -> op(MoveCursorToBeginning(model))
       [] keycode = KEY_BACKSPACE -> op(Backspace(model))
       [] keycode = KEY_DELETE -> op(Delete(model))
       [] keycode = KEY_ENTER ->
            [model |-> EnterPressed(model).model, changed |-> FALSE,
             channel |-> EnterPressed(model).channel]
       [] OTHER ->
            IF code_point # 0
              THEN [model |-> AddCodePoint(model, code_point), changed |-> TRUE,
                    channel |-> <<>>]
              ELSE [model |-> model, changed |-> FALSE, channel |-> <<>>]

\* The switch of OnKeyPressed: the model afterwards, `changed`, and what
\* EnterPressed sent.
KeySwitch(model, keycode, code_point) ==
  LET op(r) == [model |-> r.model, changed |-> r.changed, channel |-> <<>>]
  IN CASE keycode = KEY_LEFT -> op(MoveCursorBack(model))
       [] keycode = KEY_RIGHT -> op(MoveCursorForward(model))
       [] keycode = KEY_END -> op(MoveCursorToEnd(model))
       [] keycode = KEY_HOME -> op(MoveCursorToBeginning(model))
       [] keycode = KEY_BACKSPACE -> op(Backspace(model))
       [] keycode = KEY_DELETE -> op(Delete(model))
       [] keycode = KEY_ENTER ->
            [model |-> EnterPressed(model).model, changed |-> FALSE,
             channel |-> EnterPressed(model).channel]
       [] OTHER ->
            IF code_point # 0
              THEN [model |-> AddCodePoint(model, code_point), changed |-> TRUE,
                    channel |-> <<>>]
              ELSE [model |-> model, changed |-> FALSE, channel |-> <<>>]

\* OnKeyPressed reaching EnterPressed without the check of active_model_.
OnKeyPressed_unguarded(keycode, code_point) ==
  IF active_model = <<>>
    THEN IF keycode = KEY_ENTER
           THEN [Unchanged EXCEPT !.channel = <<PerformAction>>]
           ELSE Unchanged
    ELSE LET r == KeySwitch(active_model[1], keycode, code_point)
         IN [Unchanged EXCEPT
               !.active_model = <<r.model>>,
               !.channel = IF r.changed
                             THEN r.channel \o <<SendStateUpdate(r.model)>>
                             ELSE r.channel]

\* OnKeyPressed sending the state update whether or not `changed` is set.
OnKeyPressed_always_sends(keycode, code_point) ==
  IF active_model = <<>>
    THEN Unchanged
    ELSE LET r == KeySwitch(active_model[1], keycode, code_point)
         IN [Unchanged EXCEPT
               !.active_model = <<r.model>>,
               !.channel = r.channel \o <<SendStateUpdate(r.model)>>]

OnKeyPressed(keycode, code_point) ==
  IF active_model = <<>>
    THEN Unchanged
    ELSE LET r == KeySwitch(active_model[1], keycode, code_point)
         IN [Unchanged EXCEPT
               !.active_model = <<r.model>>,
               !.channel = IF r.changed
                             THEN r.channel \o <<SendStateUpdate(r.model)>>
                             ELSE r.channel]

\* MaliitShowInputMethod going on to show-input-method after a failed
\* activate-context.
MaliitShowInputMethod_unchained(ime) ==
  IF ~maliit_server
    THEN <<>>
    ELSE <<HostCall("activate_context", ime[1]),
           HostCall("show_input_method", ime[2])>>

\* ime = <<first call succeeded, second call succeeded>>: the server's answers.
MaliitShowInputMethod(ime) ==
  IF ~maliit_server
    THEN <<>>
    ELSE IF ime[1]
      THEN <<HostCall("activate_context", TRUE),
             HostCall("show_input_method", ime[2])>>
      ELSE <<HostCall("activate_context", FALSE)>>

MaliitHideInputMethod(ime) ==
  IF ~maliit_server
    THEN <<>>
    ELSE <<HostCall("reset", ime[1]), HostCall("hide_input_method", ime[2])>>

\* ParseInputAction without the reset of input_action_ to "".
ParseInputAction_keeps(config) ==
  IF config.inputAction[1] = "string" THEN config.inputAction[2] ELSE input_action

\* input_action_ as setClient parses it from the config object.
ParseInputAction(config) ==
  IF config.inputAction[1] = "string" THEN config.inputAction[2] ELSE ""

\* ParseInputType without the reset of input_type_ to "".
ParseInputType_keeps(config) ==
  IF config.inputType[1] = "object"
    THEN IF config.inputType[2].name[1] = "string"
           THEN config.inputType[2].name[2]
           ELSE input_type
    ELSE input_type

\* input_type_ as setClient parses it from the config object.
ParseInputType(config) ==
  IF config.inputType[1] = "object"
    THEN IF config.inputType[2].name[1] = "string"
           THEN config.inputType[2].name[2]
           ELSE ""
    ELSE ""

Error(code) == [Unchanged EXCEPT !.result = code]

\* SetClient assigning client_id_ before it checks the config.
SetClient_early_id(args) ==
  IF args = <<>> THEN Error(kBadArgumentError)
  ELSE IF args[1].id[1] = "null" THEN Error(kBadArgumentError)
  ELSE IF args[1].config[1] = "null"
    THEN [Error(kBadArgumentError) EXCEPT !.client_id = args[1].id[2]]
  ELSE [Unchanged EXCEPT
          !.client_id = args[1].id[2],
          !.input_action = ParseInputAction(args[1].config[2]),
          !.input_type = ParseInputType(args[1].config[2]),
          !.active_model = <<TextInputModel>>,
          !.result = kSuccess]

SetClient(args) ==
  IF args = <<>> THEN Error(kBadArgumentError)
  ELSE IF args[1].id[1] = "null" THEN Error(kBadArgumentError)
  ELSE IF args[1].config[1] = "null" THEN Error(kBadArgumentError)
  ELSE [Unchanged EXCEPT
          !.client_id = args[1].id[2],
          !.input_action = ParseInputAction(args[1].config[2]),
          !.input_type = ParseInputType(args[1].config[2]),
          !.active_model = <<TextInputModel>>,
          !.result = kSuccess]

\* EditingSelection translating a pair as soon as one bound is -1.
EditingSelection_either(base, extent) ==
  IF base = -1 \/ extent = -1 THEN TextRange(0, 0) ELSE TextRange(base, extent)

\* base and extent as setEditingState hands them to SetSelection.
EditingSelection(base, extent) ==
  IF base = -1 /\ extent = -1 THEN TextRange(0, 0) ELSE TextRange(base, extent)

\* SetEditingState checking the text before the active model.
SetEditingState_text_first(args) ==
  IF args = <<>> THEN Error(kBadArgumentError)
  ELSE IF args[1].text[1] \in {"missing", "null"} THEN Error(kBadArgumentError)
  ELSE IF active_model = <<>> THEN Error(kInternalConsistencyError)
  ELSE IF \/ args[1].selectionBase[1] \in {"missing", "null"}
          \/ args[1].selectionExtent[1] \in {"missing", "null"}
    THEN Error(kInternalConsistencyError)
  ELSE [Unchanged EXCEPT
          !.active_model =
             <<SetSelection(SetText(active_model[1], args[1].text[2]),
                            EditingSelection(args[1].selectionBase[2],
                                             args[1].selectionExtent[2]))>>,
          !.result = kSuccess]

SetEditingState(args) ==
  IF args = <<>> THEN Error(kBadArgumentError)
  ELSE IF active_model = <<>> THEN Error(kInternalConsistencyError)
  ELSE IF args[1].text[1] \in {"missing", "null"} THEN Error(kBadArgumentError)
  ELSE IF \/ args[1].selectionBase[1] \in {"missing", "null"}
          \/ args[1].selectionExtent[1] \in {"missing", "null"}
    THEN Error(kInternalConsistencyError)
  ELSE [Unchanged EXCEPT
          !.active_model =
             <<SetSelection(SetText(active_model[1], args[1].text[2]),
                            EditingSelection(args[1].selectionBase[2],
                                             args[1].selectionExtent[2]))>>,
          !.result = kSuccess]

HandleMethodCall(method, args, ime) ==
  IF method = kShowMethod
    THEN [Unchanged EXCEPT
            !.host_calls = <<HostCall("UpdateVirtualKeyboardStatus", TRUE)>>
                           \o MaliitShowInputMethod(ime),
            !.result = kSuccess]
  ELSE IF method = kHideMethod
    THEN [Unchanged EXCEPT
            !.host_calls = <<HostCall("UpdateVirtualKeyboardStatus", FALSE)>>
                           \o MaliitHideInputMethod(ime),
            !.result = kSuccess]
  ELSE IF method = kClearClientMethod
    THEN [Unchanged EXCEPT !.active_model = <<>>, !.result = kSuccess]
  ELSE IF method = kSetClientMethod THEN SetClient(args)
  ELSE IF method = kSetEditingStateMethod THEN SetEditingState(args)
  ELSE Error(kNotImplemented)

\* MaliitHandleIMInitiatedHide sending the state whether or not it was composing.
MaliitHandleIMInitiatedHide_always_sends ==
  IF active_model = <<>>
    THEN Unchanged
    ELSE [Unchanged EXCEPT
            !.active_model = <<EndComposing(active_model[1])>>,
            !.channel = <<SendStateUpdate(EndComposing(active_model[1]))>>]

\* MaliitHandleIMInitiatedHide leaving the composition open.
MaliitHandleIMInitiatedHide_open ==
  IF active_model = <<>>
    THEN Unchanged
    ELSE IF active_model[1].composing
      THEN [Unchanged EXCEPT !.channel = <<SendStateUpdate(active_model[1])>>]
      ELSE Unchanged

MaliitHandleIMInitiatedHide ==
  IF active_model = <<>>
    THEN Unchanged
    ELSE IF active_model[1].composing
      THEN [Unchanged EXCEPT
              !.active_model = <<EndComposing(active_model[1])>>,
              !.channel = <<SendStateUpdate(EndComposing(active_model[1]))>>]
      ELSE Unchanged

\* MaliitHandleCommitString leaving the composition open after the commit.
MaliitHandleCommitString_open(string) ==
  IF active_model = <<>>
    THEN Unchanged
    ELSE LET m == IF active_model[1].composing
                    THEN UpdateComposingText(active_model[1], string)
                    ELSE AddText(active_model[1], string)
         IN [Unchanged EXCEPT !.active_model = <<m>>,
                              !.channel = <<SendStateUpdate(m)>>]

MaliitHandleCommitString(string) ==
  IF active_model = <<>>
    THEN Unchanged
    ELSE LET m == IF active_model[1].composing
                    THEN EndComposing(UpdateComposingText(active_model[1], string))
                    ELSE AddText(active_model[1], string)
         IN [Unchanged EXCEPT !.active_model = <<m>>,
                              !.channel = <<SendStateUpdate(m)>>]

\* MaliitHandleUpdatePreedit beginning a composition on every callback.
MaliitHandleUpdatePreedit_restart(string) ==
  IF active_model = <<>>
    THEN Unchanged
    ELSE LET m == UpdateComposingText(BeginComposing(active_model[1]), string)
         IN [Unchanged EXCEPT !.active_model = <<m>>,
                              !.channel = <<SendStateUpdate(m)>>]

\* MaliitHandleUpdatePreedit sending the state before UpdateComposingText.
MaliitHandleUpdatePreedit_stale(string) ==
  IF active_model = <<>>
    THEN Unchanged
    ELSE LET b == IF ~active_model[1].composing
                    THEN BeginComposing(active_model[1])
                    ELSE active_model[1]
             m == UpdateComposingText(b, string)
         IN [Unchanged EXCEPT !.active_model = <<m>>,
                              !.channel = <<SendStateUpdate(b)>>]

MaliitHandleUpdatePreedit(string) ==
  IF active_model = <<>>
    THEN Unchanged
    ELSE LET b == IF ~active_model[1].composing
                    THEN BeginComposing(active_model[1])
                    ELSE active_model[1]
             m == UpdateComposingText(b, string)
         IN [Unchanged EXCEPT !.active_model = <<m>>,
                              !.channel = <<SendStateUpdate(m)>>]

\* MaliitHandleKeyEvent translating releases as well as presses.
MaliitHandleKeyEvent_any_type(type, key) ==
  IF active_model = <<>>
    THEN Unchanged
    ELSE IF key \in DOMAIN QtKeyToLinuxEvent
      THEN OnKeyPressed(QtKeyToLinuxEvent[key], 0)
      ELSE Unchanged

MaliitHandleKeyEvent(type, key) ==
  IF active_model = <<>>
    THEN Unchanged
    ELSE IF type = KeyPress /\ key \in DOMAIN QtKeyToLinuxEvent
      THEN OnKeyPressed(QtKeyToLinuxEvent[key], 0)
      ELSE Unchanged

MaliitHandleUpdateInputMethodArea == Unchanged

maliit_im_invoke_action == Unchanged

\* InitMaliitConnection going on to the context after a failed server connect.
InitMaliitConnection_both(server_ok, context_ok) ==
  [maliit_server |-> server_ok, maliit_context |-> context_ok]

\* The two endpoints after InitMaliitConnection, given which connects succeed.
InitMaliitConnection(server_ok, context_ok) ==
  IF server_ok
    THEN [maliit_server |-> TRUE, maliit_context |-> context_ok]
    ELSE [maliit_server |-> FALSE, maliit_context |-> FALSE]

\* ------------------------------------------------------------- events
\* The last event: its path, its handler and, for a hardware key, its key code.
Event(kind, method, keycode) ==
  [kind |-> kind, method |-> method, keycode |-> keycode]

\* The plugin handles event ev with outcome o.
Handled(ev, o) ==
  /\ event' = ev
  /\ active_model' = o.active_model
  /\ client_id' = o.client_id
  /\ input_action' = o.input_action
  /\ input_type' = o.input_type
  /\ channel' = o.channel
  /\ result' = o.result
  /\ host_calls' = o.host_calls
  /\ UNCHANGED <<maliit_server, maliit_context, connect>>

MethodCall(method, args, ime) ==
  Handled(Event("method", method, 0), HandleMethodCall(method, args, ime))

KeyPressed(keycode, code_point) ==
  Handled(Event("key", "OnKeyPressed", keycode),
          OnKeyPressed(keycode, code_point))

InitPlugin ==
  /\ active_model = <<>>
  /\ client_id = 0
  /\ input_action = ""
  /\ input_type = ""
  /\ \E server_ok \in BOOLEAN, context_ok \in BOOLEAN :
        /\ connect = [server |-> server_ok, context |-> context_ok]
        /\ maliit_server = InitMaliitConnection(server_ok, context_ok).maliit_server
        /\ maliit_context = InitMaliitConnection(server_ok, context_ok).maliit_context
  /\ channel = <<>>
  /\ result = ""
  /\ host_calls = <<>>
  /\ event = Event("init", "", 0)

\* One event of each kind, on the plugin's own variables.
ShowEvent == \E ime \in BOOLEAN \X BOOLEAN : MethodCall(kShowMethod, <<>>, ime)

HideEvent == \E ime \in BOOLEAN \X BOOLEAN : MethodCall(kHideMethod, <<>>, ime)

ClearClientEvent == MethodCall(kClearClientMethod, <<>>, <<TRUE, TRUE>>)

SetClientEvent ==
  \E args \in SetClientArgs : MethodCall(kSetClientMethod, args, <<TRUE, TRUE>>)

SetEditingStateEvent ==
  \E args \in SetEditingStateArgs :
    MethodCall(kSetEditingStateMethod, args, <<TRUE, TRUE>>)

UnknownMethodEvent == MethodCall("TextInput.requestAutofill", <<>>, <<TRUE, TRUE>>)

HardwareKeyEvent == \E key \in KeyInputs : KeyPressed(key[1], key[2])

IMInitiatedHideEvent ==
  /\ maliit_context
  /\ Handled(Event("ime", "handle-im-initiated-hide", 0),
             MaliitHandleIMInitiatedHide)

CommitString(string) ==
  /\ maliit_context
  /\ Handled(Event("ime", "handle-commit-string", 0),
             MaliitHandleCommitString(string))

CommitStringEvent == \E string \in IMEStrings : CommitString(string)

UpdatePreedit(string) ==
  /\ maliit_context
  /\ Handled(Event("ime", "handle-update-preedit", 0),
             MaliitHandleUpdatePreedit(string))

UpdatePreeditEvent == \E string \in IMEStrings : UpdatePreedit(string)

KeyEvent(type, key) ==
  /\ maliit_context
  /\ Handled(Event("ime", "handle-key-event", 0), MaliitHandleKeyEvent(type, key))

KeyEventEvent == \E input \in KeyEventInputs : KeyEvent(input[1], input[2])

UpdateInputMethodAreaEvent ==
  /\ maliit_context
  /\ Handled(Event("ime", "handle-update-input-method-area", 0),
             MaliitHandleUpdateInputMethodArea)

InvokeActionEvent ==
  /\ maliit_server
  /\ Handled(Event("ime", "invoke-action", 0), maliit_im_invoke_action)

\* ------------------------------------------------------------- SpecScenario
\* A session's text grows with every character typed or committed, so the
\* plugin has no finite set of states; the handlers above are total and carry
\* no bound. The runs explored are scripted: from construction, at most
\* PriorSteps events of any kind with any input, in any order; then
\* setClient(c, {}); and then either setEditingState(text of length n, -1, -1)
\* and RIGHT pressed n times, or the composing run of three IME callbacks.
\* scenario.log collects what the RIGHT presses and the callbacks sent.
ScenarioStart ==
  [stage |-> "prior", budget |-> PriorSteps, c |-> 0, n |-> 0, k |-> 0, log |-> <<>>]

InitScenario == InitPlugin /\ scenario = ScenarioStart

ScenarioPrior ==
  /\ scenario.stage = "prior"
  /\ scenario.budget > 0
  /\ \/ ShowEvent
     \/ HideEvent
     \/ ClearClientEvent
     \/ SetClientEvent
     \/ SetEditingStateEvent
     \/ UnknownMethodEvent
     \/ HardwareKeyEvent
     \/ IMInitiatedHideEvent
     \/ CommitStringEvent
     \/ UpdatePreeditEvent
     \/ KeyEventEvent
     \/ UpdateInputMethodAreaEvent
     \/ InvokeActionEvent
  /\ scenario' = [scenario EXCEPT !.budget = @ - 1]

ScenarioSetClient ==
  /\ scenario.stage = "prior"
  /\ \E c \in ClientIds :
        /\ MethodCall(kSetClientMethod,
                      <<[id |-> JInt(c), config |-> Config(Missing, Missing)]>>,
                      <<TRUE, TRUE>>)
        /\ scenario' = [scenario EXCEPT !.stage = "client", !.budget = 0, !.c = c]

ScenarioSetEditingState ==
  /\ scenario.stage = "client"
  /\ \E n \in 0..MaxLen :
        /\ MethodCall(kSetEditingStateMethod,
                      EditingState(JString(HiText(n)), JInt(-1), JInt(-1)),
                      <<TRUE, TRUE>>)
        /\ scenario' = [scenario EXCEPT !.stage = "right", !.n = n]

ScenarioRight ==
  /\ scenario.stage = "right"
  /\ scenario.k < scenario.n
  /\ KeyPressed(KEY_RIGHT, 0)
  /\ scenario' = [scenario EXCEPT !.k = @ + 1, !.log = @ \o channel']

\* The composing run, from the fresh session of ScenarioSetClient:
\* update-preedit("ab"), IM-initiated-hide, commit-string("c").
AbText == <<97, 98>>
CText == <<99>>

ScenarioPreedit ==
  /\ scenario.stage = "client"
  /\ maliit_context
  /\ Handled(Event("ime", "handle-update-preedit", 0),
             MaliitHandleUpdatePreedit(AbText))
  /\ scenario' = [scenario EXCEPT !.stage = "preedit", !.log = @ \o channel']

ScenarioIMInitiatedHide ==
  /\ scenario.stage = "preedit"
  /\ maliit_context
  /\ Handled(Event("ime", "handle-im-initiated-hide", 0),
             MaliitHandleIMInitiatedHide)
  /\ scenario' = [scenario EXCEPT !.stage = "hidden", !.log = @ \o channel']

ScenarioCommit ==
  /\ scenario.stage = "hidden"
  /\ maliit_context
  /\ Handled(Event("ime", "handle-commit-string", 0),
             MaliitHandleCommitString(CText))
  /\ scenario' = [scenario EXCEPT !.stage = "committed", !.log = @ \o channel']

NextScenario ==
  \/ ScenarioPrior
  \/ ScenarioSetClient
  \/ ScenarioSetEditingState
  \/ ScenarioRight
  \/ ScenarioPreedit
  \/ ScenarioIMInitiatedHide
  \/ ScenarioCommit

SpecScenario == InitScenario /\ [][NextScenario]_vars

\* ------------------------------------------------------------- properties
SessionActive == active_model # <<>>

Updates(ch) == SelectSeq(ch, LAMBDA n : n.method = kUpdateEditingStateMethod)
Performs(ch) == SelectSeq(ch, LAMBDA n : n.method = kPerformActionMethod)

\* note is an updateEditingState whose text and selection are those of m, with
\* composingBase and composingExtent -1.
CarriesModel(note, m) ==
  /\ note.method = kUpdateEditingStateMethod
  /\ Len(note.state) = 1
  /\ note.state[1].text = m.text
  /\ note.state[1].selectionBase = m.selection.base
  /\ note.state[1].selectionExtent = m.selection.extent
  /\ note.state[1].composingBase = -1
  /\ note.state[1].composingExtent = -1

\* The step changes the text or the selection of the model of a session.
Mutates ==
  /\ SessionActive
  /\ SessionActive'
  /\ \/ active_model'[1].text # active_model[1].text
     \/ active_model'[1].selection # active_model[1].selection

\* The step sends exactly one updateEditingState, of the model it leaves.
OneUpdateOfNewModel ==
  /\ Len(Updates(channel')) = 1
  /\ CarriesModel(Updates(channel')[1], active_model'[1])

C2_NoSessionNoEffect ==
  [][(~SessionActive /\ event'.kind \in {"key", "ime"}) =>
       /\ channel' = <<>>
       /\ UNCHANGED <<active_model, client_id, input_action, input_type>>]_vars

\* ENTER arrived after clearClient ended a multiline session of client 5.
C2_Witness ==
  /\ ~SessionActive
  /\ event = Event("key", "OnKeyPressed", KEY_ENTER)
  /\ client_id = 5
  /\ input_type = kMultilineInputType
  /\ channel = <<>>

\* C3: ENTER with an active session sends exactly one performAction
\* [clientId, inputAction]; with the multiline input type it first inserts a
\* newline at the caret and sends one updateEditingState of the new model,
\* before the performAction; with any other input type the model is unchanged
\* and performAction is the only notification.
C3_Enter ==
  [][(SessionActive /\ event' = Event("key", "OnKeyPressed", KEY_ENTER)) =>
       /\ SessionActive'
       /\ Len(Performs(channel')) = 1
       /\ Performs(channel')[1].clientId = client_id
       /\ Performs(channel')[1].action = <<input_action>>
       /\ IF input_type = kMultilineInputType
            THEN /\ Len(channel') = 2
                 /\ CarriesModel(channel'[1], active_model'[1])
                 /\ channel'[2].method = kPerformActionMethod
                 /\ \E i \in 1..Len(active_model'[1].text) :
                       active_model'[1].text[i] = CP_newline
                 /\ LET m == active_model[1]
                        c == m.selection.extent
                    IN (collapsed(m.selection) /\ c \in 0..Len(m.text)) =>
                         /\ active_model'[1].text =
                              SubSeq(m.text, 1, c) \o <<CP_newline>> \o
                              SubSeq(m.text, c + 1, Len(m.text))
                         /\ active_model'[1].selection = TextRange(c + 1, c + 1)
            ELSE /\ Len(channel') = 1
                 /\ active_model' = active_model]_vars

\* ENTER in a multiline session put a newline after "h" and sent both notes.
C3_Witness ==
  /\ SessionActive
  /\ event = Event("key", "OnKeyPressed", KEY_ENTER)
  /\ input_type = kMultilineInputType
  /\ active_model[1].text = <<104, CP_newline>>
  /\ Len(channel) = 2
  /\ channel[1].method = kUpdateEditingStateMethod
  /\ channel[2].method = kPerformActionMethod

\* C4: in every state with an active session, selection.base and
\* selection.extent lie in [0, len(text)].
C4_SelectionInText ==
  SessionActive =>
    /\ active_model[1].selection.base \in 0..Len(active_model[1].text)
    /\ active_model[1].selection.extent \in 0..Len(active_model[1].text)

\* C5: a method call that ends with Bad Arguments, Internal Consistency Error
\* or NotImplemented leaves the session state (model, clientId, inputAction,
\* inputType) unchanged and sends no notification.
C5_ErrorsChangeNothing ==
  [][(/\ event'.kind = "method"
      /\ result' \in {kBadArgumentError, kInternalConsistencyError, kNotImplemented}) =>
       /\ UNCHANGED <<active_model, client_id, input_action, input_type>>
       /\ channel' = <<>>]_vars

\* A setClient failed while the session of client 5 held the text "hi".
C5_Witness ==
  /\ event.method = kSetClientMethod
  /\ result = kBadArgumentError
  /\ SessionActive
  /\ client_id = 5
  /\ active_model[1].text = HiText(2)

\* Has the document the member, and is it not null?
Present(member) == member[1] \notin {"missing", "null"}

\* The result C6 states for setEditingState(args).
C6_Stated(args) ==
  IF ~SessionActive THEN kInternalConsistencyError
  ELSE IF args = <<>> THEN kBadArgumentError
  ELSE IF ~Present(args[1].text) THEN kBadArgumentError
  ELSE IF Present(args[1].selectionBase) /\ Present(args[1].selectionExtent)
    THEN kSuccess
  ELSE kInternalConsistencyError

\* The result of setEditingState(args), as amended.
C6_Amended(args) ==
  IF args = <<>> THEN kBadArgumentError
  ELSE IF ~SessionActive THEN kInternalConsistencyError
  ELSE IF ~Present(args[1].text) THEN kBadArgumentError
  ELSE IF Present(args[1].selectionBase) /\ Present(args[1].selectionExtent)
    THEN kSuccess
  ELSE kInternalConsistencyError

\* C6 as stated: setEditingState ends with Internal Consistency Error whenever
\* no session is active, whatever its arguments; with a session, Bad Arguments
\* when text is missing or null, Internal Consistency Error when a selection
\* bound is missing or null, and success otherwise.
C6_ResultAsStated ==
  \A args \in SetEditingStateArgs :
    HandleMethodCall(kSetEditingStateMethod, args, <<TRUE, TRUE>>).result =
      C6_Stated(args)

\* C6, amended: setEditingState without an arguments document ends with Bad
\* Arguments whether or not a session is active; with a document it ends with
\* Internal Consistency Error when no session is active, and with a session
\* as C6 states.
C6_ResultAmended ==
  \A args \in SetEditingStateArgs :
    HandleMethodCall(kSetEditingStateMethod, args, <<TRUE, TRUE>>).result =
      C6_Amended(args)

\* setEditingState was refused for want of a session.
C6_Witness ==
  /\ event.method = kSetEditingStateMethod
  /\ ~SessionActive
  /\ result = kInternalConsistencyError

\* C7: a successful setClient(clientId, config) leaves inputAction equal to
\* config.inputAction when that is a string and "" otherwise, inputType equal
\* to config.inputType.name when that is a string and "" otherwise, clientId
\* equal to the new id and a fresh model, whatever the earlier session held.
C7_SetClientResets ==
  \A args \in SetClientArgs :
    LET o == HandleMethodCall(kSetClientMethod, args, <<TRUE, TRUE>>)
    IN o.result = kSuccess =>
         LET config == args[1].config[2]
         IN /\ o.client_id = args[1].id[2]
            /\ o.input_action =
                 IF config.inputAction[1] = "string"
                   THEN config.inputAction[2] ELSE ""
            /\ o.input_type =
                 IF config.inputType[1] # "object" THEN ""
                 ELSE IF config.inputType[2].name[1] # "string" THEN ""
                 ELSE config.inputType[2].name[2]
            /\ Len(o.active_model) = 1
            /\ o.active_model[1].text = <<>>
            /\ o.active_model[1].selection = TextRange(0, 0)
            /\ ~o.active_model[1].composing
            /\ o.active_model[1].composing_range = <<>>

\* The session of client 5, with input action "TextInputAction.done", the
\* multiline input type and the text "hi": setClient(7, config without either
\* member) succeeds there and leaves client 7, "" and "" and a fresh model.
C7_Witness ==
  /\ SessionActive
  /\ client_id = 5
  /\ input_action = "TextInputAction.done"
  /\ input_type = kMultilineInputType
  /\ active_model[1].text = HiText(2)
  /\ LET o == HandleMethodCall(kSetClientMethod,
                               <<[id |-> JInt(7), config |-> Config(Missing, Missing)]>>,
                               <<TRUE, TRUE>>)
     IN /\ o.result = kSuccess
        /\ o.client_id = 7
        /\ o.input_action = ""
        /\ o.input_type = ""
        /\ o.active_model = <<TextInputModel>>

\* C8: with an active session, setEditingState(t, -1, -1) leaves the state,
\* the result and the notifications that setEditingState(t, 0, 0) leaves; any
\* other pair of bounds, one bound -1 included, becomes the selection as sent.
C8_SentinelIsZero ==
  SessionActive =>
    \A n \in TextLengths : \A b \in BoundsFor(n), e \in BoundsFor(n) :
      LET call(x, y) ==
            HandleMethodCall(kSetEditingStateMethod,
                             EditingState(JString(HiText(n)), JInt(x), JInt(y)),
                             <<TRUE, TRUE>>)
          o == call(b, e)
      IN IF b = -1 /\ e = -1
           THEN /\ o = call(0, 0)
                /\ o.active_model[1].selection = TextRange(0, 0)
           ELSE /\ o.result = kSuccess
                /\ o.active_model[1].selection = TextRange(b, e)
                /\ o.active_model[1].text = HiText(n)

\* setEditingState("hi", -1, 2) stored the selection (-1, 2).
C8_Witness ==
  /\ event.method = kSetEditingStateMethod
  /\ result = kSuccess
  /\ SessionActive
  /\ active_model[1].text = HiText(2)
  /\ active_model[1].selection = TextRange(-1, 2)

\* C9: after setClient(c, {}), setEditingState(text of length n, -1, -1) and
\* n presses of RIGHT, the text is unchanged, the selection is (n, n), and the
\* presses sent exactly n updateEditingState notifications, each with clientId c.
C9_RightScenario ==
  (scenario.stage = "right" /\ scenario.k = scenario.n) =>
    /\ SessionActive
    /\ active_model[1].text = HiText(scenario.n)
    /\ active_model[1].selection = TextRange(scenario.n, scenario.n)
    /\ Len(scenario.log) = scenario.n
    /\ \A i \in 1..Len(scenario.log) :
         /\ scenario.log[i].method = kUpdateEditingStateMethod
         /\ scenario.log[i].clientId = scenario.c
         /\ scenario.log[i].state[1].text = HiText(scenario.n)

\* The run of the specification's case: c = 5, text "hi", two presses.
C9_Witness ==
  /\ scenario.stage = "right"
  /\ scenario.c = 5
  /\ scenario.n = 2
  /\ scenario.k = 2
  /\ active_model[1].text = <<104, 105>>
  /\ Len(scenario.log) = 2

\* The model operation of the key reports no change: the cases C10 lists.
C10_NoChangeCase(m, keycode, code_point) ==
  \/ /\ keycode \in {KEY_BACKSPACE, KEY_LEFT, KEY_HOME}
     /\ m.selection = TextRange(0, 0)
  \/ /\ keycode \in {KEY_DELETE, KEY_RIGHT, KEY_END}
     /\ m.selection = TextRange(Len(m.text), Len(m.text))
  \/ /\ keycode \notin {KEY_LEFT, KEY_RIGHT, KEY_END, KEY_HOME, KEY_BACKSPACE,
                          KEY_DELETE, KEY_ENTER}
     /\ code_point = 0

\* C10: BACKSPACE, LEFT or HOME with the caret at 0 and no selection, DELETE,
\* RIGHT or END with the caret at len(text) and no selection, and a key
\* outside the dispatch with code point 0, send no updateEditingState and
\* leave the model as it was.
C10_NoChangeNoUpdate ==
  SessionActive =>
    \A key \in KeyInputs :
      C10_NoChangeCase(active_model[1], key[1], key[2]) =>
        LET o == OnKeyPressed(key[1], key[2])
        IN /\ o.channel = <<>>
           /\ o.active_model = active_model

\* BACKSPACE at the start of "hi" sent nothing.
C10_Witness ==
  /\ SessionActive
  /\ event = Event("key", "OnKeyPressed", KEY_BACKSPACE)
  /\ active_model[1].text = HiText(2)
  /\ active_model[1].selection = TextRange(0, 0)
  /\ channel = <<>>

\* The model operations of the composing sequence, applied to a fresh model.
ComposingSequence ==
  AddText(EndComposing(UpdateComposingText(BeginComposing(TextInputModel),
                                           AbText)), CText)

\* C11: from a fresh session, begin composing, update composing text to "ab",
\* end composing, add text "c" ends with text "abc", caret at 3 and composing
\* inactive; update-preedit("ab"), IM-initiated-hide, commit-string("c") drive
\* the session's model through that sequence, each sending one update.
C11_ComposingScenario ==
  /\ ComposingSequence =
       [text |-> <<97, 98, 99>>, selection |-> TextRange(3, 3),
        composing |-> FALSE, composing_range |-> <<>>]
  /\ scenario.stage = "preedit" =>
       /\ active_model = <<UpdateComposingText(BeginComposing(TextInputModel),
                                              AbText)>>
       /\ active_model[1].composing
       /\ active_model[1].text = AbText
  /\ scenario.stage = "hidden" =>
       /\ ~active_model[1].composing
       /\ active_model[1].text = AbText
  /\ scenario.stage = "committed" =>
       /\ active_model = <<ComposingSequence>>
       /\ Len(scenario.log) = 3
       /\ \A i \in 1..3 :
            /\ scenario.log[i].method = kUpdateEditingStateMethod
            /\ scenario.log[i].clientId = scenario.c
       /\ scenario.log[3].state[1].text = <<97, 98, 99>>
       /\ scenario.log[3].state[1].selectionBase = 3
       /\ scenario.log[3].state[1].selectionExtent = 3

\* The three callbacks have run and left "abc".
C11_Witness ==
  /\ scenario.stage = "committed"
  /\ event = Event("ime", "handle-commit-string", 0)
  /\ active_model[1].text = <<97, 98, 99>>
  /\ active_model[1].selection = TextRange(3, 3)
  /\ ~active_model[1].composing

\* The calls an event made to the IME server.
ServerCalls == SelectSeq(host_calls, LAMBDA c : c.name # "UpdateVirtualKeyboardStatus")

\* C12: both endpoints are attempted at startup and each is null exactly when
\* its own connect failed: show and hide make no call to the IME server
\* exactly when the server connect failed, and the context's signal handlers
\* are subscribed exactly when the context connect succeeded, whatever the
\* server connect did.
C12_EndpointsIndependent ==
  /\ maliit_server = connect.server
  /\ maliit_context = connect.context
  /\ event.method \in {kShowMethod, kHideMethod} =>
       (ServerCalls = <<>> <=> ~connect.server)
  /\ (event.kind = "ime" /\ event.method # "invoke-action") => connect.context

\* C12, amended: the server endpoint is null exactly when its connect failed,
\* and show and hide make no call to the IME server exactly then; the context
\* is attempted only after the server connect succeeded, so its handlers are
\* subscribed exactly when both connects succeeded.
C12_ContextAfterServer ==
  /\ maliit_server = connect.server
  /\ maliit_context = (connect.server /\ connect.context)
  /\ event.method \in {kShowMethod, kHideMethod} =>
       (ServerCalls = <<>> <=> ~connect.server)

\* The server connect failed where the context would have answered: show made
\* no call to the server and no context handler is subscribed.
C12_Witness ==
  /\ connect = [server |-> FALSE, context |-> TRUE]
  /\ event.method = kShowMethod
  /\ result = kSuccess
  /\ ServerCalls = <<>>
  /\ ~maliit_server
  /\ ~maliit_context

\* The names of the calls an event made to the IME server, in order.
ServerCallNames == [i \in 1..Len(ServerCalls) |-> ServerCalls[i].name]

\* C13: with the server connected, show calls activate-context first and
\* show-input-method only after activate-context succeeded; hide calls reset
\* and then hide-input-method, whether or not reset failed; show and hide
\* return success and leave the session and its model as they were, whatever
\* the IME server answered.
C13_ShowHideChains ==
  [][/\ (maliit_server /\ event'.method = kShowMethod) =>
          \/ /\ ServerCallNames' = <<"activate_context", "show_input_method">>
             /\ ServerCalls'[1].arg
          \/ /\ ServerCallNames' = <<"activate_context">>
             /\ ~ServerCalls'[1].arg
     /\ (maliit_server /\ event'.method = kHideMethod) =>
          ServerCallNames' = <<"reset", "hide_input_method">>
     /\ event'.method \in {kShowMethod, kHideMethod} =>
          /\ result' = kSuccess
          /\ channel' = <<>>
          /\ UNCHANGED <<active_model, client_id, input_action, input_type>>]_vars

\* A hide of a session holding "hi" whose reset failed: hide-input-method was
\* still called, and failed too.
C13_Witness ==
  /\ event.method = kHideMethod
  /\ maliit_server
  /\ ServerCalls = <<HostCall("reset", FALSE), HostCall("hide_input_method", FALSE)>>
  /\ result = kSuccess
  /\ SessionActive
  /\ active_model[1].text = HiText(2)

\* n is m with the code points [from, to) replaced by string and the caret
\* after them.
Replaced(m, n, from, to, string) ==
  /\ n.text = SubSeq(m.text, 1, from) \o string \o SubSeq(m.text, to + 1, Len(m.text))
  /\ n.selection = TextRange(from + Len(string), from + Len(string))

\* C14: in every state with an active session and for every string, a
\* commit-string of that string replaces the composing range by the string
\* when the model is composing, and otherwise inserts the string at the caret,
\* in place of the selection if there is one; the model is not composing
\* afterwards, the session is otherwise as it was, and exactly one
\* updateEditingState, of the new model, is sent, also for the empty string.
C14_CommitString ==
  SessionActive =>
    \A string \in IMEStrings :
      LET m == active_model[1]
          o == MaliitHandleCommitString(string)
          range == IF m.composing THEN m.composing_range[1] ELSE m.selection
      IN /\ Len(o.active_model) = 1
         /\ ~o.active_model[1].composing
         /\ o.active_model[1].composing_range = <<>>
         /\ Replaced(m, o.active_model[1], RangeStart(m, range),
                     RangeEnd(m, range), string)
         /\ Len(o.channel) = 1
         /\ CarriesModel(o.channel[1], o.active_model[1])
         /\ o.channel[1].clientId = client_id
         /\ o.client_id = client_id
         /\ o.input_action = input_action
         /\ o.input_type = input_type

\* "hi" is being composed as the whole text: a commit-string of "h" there
\* leaves the text "h", the caret after it and no composition, and a
\* commit-string of "" leaves the empty text and still sends one update.
C14_Witness ==
  /\ SessionActive
  /\ active_model[1].composing
  /\ active_model[1].text = HiText(2)
  /\ active_model[1].composing_range = <<TextRange(0, 2)>>
  /\ MaliitHandleCommitString(HiText(1)).active_model =
       <<[text |-> HiText(1), selection |-> TextRange(1, 1),
          composing |-> FALSE, composing_range |-> <<>>]>>
  /\ MaliitHandleCommitString(<<>>).active_model[1].text = <<>>
  /\ Len(MaliitHandleCommitString(<<>>).channel) = 1

\* C15: in every state with an active session and for every string, an
\* update-preedit of that string begins composing at the caret only if the
\* model is not composing, then replaces the composing range by the string:
\* afterwards the model is composing, the composing range covers the string,
\* the text outside it is as before, the caret is at the end of the string,
\* and exactly one updateEditingState is sent, also when nothing changed; a
\* later update-preedit replaces the earlier preedit text.
C15_UpdatePreedit ==
  SessionActive =>
    \A string \in IMEStrings :
      LET m == active_model[1]
          o == MaliitHandleUpdatePreedit(string)
          from == IF m.composing THEN RangeStart(m, m.composing_range[1])
                  ELSE CaretOf(m)
          to == IF m.composing THEN RangeEnd(m, m.composing_range[1])
                ELSE CaretOf(m)
      IN /\ Len(o.active_model) = 1
         /\ o.active_model[1].composing
         /\ Replaced(m, o.active_model[1], from, to, string)
         /\ o.active_model[1].composing_range =
              <<TextRange(from, from + Len(string))>>
         /\ Len(o.channel) = 1
         /\ CarriesModel(o.channel[1], o.active_model[1])
         /\ o.channel[1].clientId = client_id
         /\ o.client_id = client_id
         /\ o.input_action = input_action
         /\ o.input_type = input_type

\* The preedit "hi" is being composed after an "h": an update-preedit of "h"
\* there replaces "hi", leaving "hh" with the composing range on the second
\* 'h' and the caret at its end; an update-preedit of "hi" changes nothing and
\* still sends one update.
C15_Witness ==
  /\ SessionActive
  /\ active_model[1].composing
  /\ active_model[1].text = <<104, 104, 105>>
  /\ active_model[1].composing_range = <<TextRange(1, 3)>>
  /\ active_model[1].selection = TextRange(3, 3)
  /\ MaliitHandleUpdatePreedit(HiText(1)).active_model =
       <<[text |-> <<104, 104>>, selection |-> TextRange(2, 2),
          composing |-> TRUE, composing_range |-> <<TextRange(1, 2)>>]>>
  /\ MaliitHandleUpdatePreedit(HiText(2)).active_model = active_model
  /\ Len(MaliitHandleUpdatePreedit(HiText(2)).channel) = 1

\* The keys of the table whose canonical code has no editing operation.
KeysWithoutOperation ==
  {Key_Escape, Key_Tab, Key_Insert, Key_Pause, Key_Up, Key_Down, Key_PageUp,
   Key_PageDown}

\* The model an IME press of a key of the table leaves: the editing operation
\* of the key's canonical code, given no code point.
C16_Operation(m, key) ==
  CASE key = Key_Left -> MoveCursorBack(m).model
    [] key = Key_Right -> MoveCursorForward(m).model
    [] key = Key_Home -> MoveCursorToBeginning(m).model
    [] key = Key_End -> MoveCursorToEnd(m).model
    [] key = Key_Backspace -> Backspace(m).model
    [] key = Key_Delete -> Delete(m).model
    [] key \in {Key_Return, Key_Enter} ->
         IF input_type = kMultilineInputType THEN AddCodePoint(m, CP_newline) ELSE m
    [] OTHER -> m

\* C16: an IME key event does what a hardware press of the mapped code with
\* code point 0 does when it is a press of a key of the table, and nothing
\* otherwise (a release, a key outside the table, no session): the press
\* leaves the model that the editing operation of the key leaves, with one
\* updateEditingState exactly when that differs from the model before and one
\* performAction exactly for Return and Enter; a key of the table without an
\* editing operation does nothing, and the only character an IME key event
\* ever inserts is the newline of ENTER on a multiline field.
C16_KeyEventAsHardwareKey ==
  \A input \in KeyEventInputs :
    LET o == MaliitHandleKeyEvent(input[1], input[2])
    IN IF input[1] = KeyPress /\ input[2] \in DOMAIN QtKeyToLinuxEvent
         THEN /\ o = OnKeyPressed(QtKeyToLinuxEvent[input[2]], 0)
              /\ input[2] \in KeysWithoutOperation => o = Unchanged
              /\ ~SessionActive => o = Unchanged
              /\ SessionActive =>
                   /\ o.active_model = <<C16_Operation(active_model[1], input[2])>>
                   /\ Len(Updates(o.channel)) =
                        (IF o.active_model # active_model THEN 1 ELSE 0)
                   /\ \A i \in 1..Len(Updates(o.channel)) :
                        CarriesModel(Updates(o.channel)[i], o.active_model[1])
                   /\ Len(Performs(o.channel)) =
                        (IF input[2] \in {Key_Return, Key_Enter} THEN 1 ELSE 0)
              /\ (SessionActive /\
                  Len(o.active_model[1].text) > Len(active_model[1].text)) =>
                   /\ input[2] \in {Key_Return, Key_Enter}
                   /\ input_type = kMultilineInputType
                   /\ o.active_model = <<AddCodePoint(active_model[1], CP_newline)>>
         ELSE o = Unchanged

\* An IME press of Return on an empty multiline field inserted the newline and
\* sent the update and the action.
C16_Witness ==
  /\ event.method = "handle-key-event"
  /\ SessionActive
  /\ input_type = kMultilineInputType
  /\ active_model[1].text = <<CP_newline>>
  /\ Len(channel) = 2
  /\ channel[1].method = kUpdateEditingStateMethod
  /\ channel[2].method = kPerformActionMethod

\* C17: an IM-initiated-hide on an active session that is composing ends the
\* composition, leaves the text and the selection as they were and sends
\* exactly one updateEditingState; on a session that is not composing it
\* changes nothing and sends nothing.
C17_IMInitiatedHide ==
  [][(event'.method = "handle-im-initiated-hide" /\ SessionActive) =>
       /\ SessionActive'
       /\ UNCHANGED <<client_id, input_action, input_type>>
       /\ IF active_model[1].composing
            THEN /\ ~active_model'[1].composing
                 /\ active_model'[1].composing_range = <<>>
                 /\ active_model'[1].text = active_model[1].text
                 /\ active_model'[1].selection = active_model[1].selection
                 /\ Len(channel') = 1
                 /\ CarriesModel(channel'[1], active_model'[1])
                 /\ channel'[1].clientId = client_id
            ELSE /\ UNCHANGED active_model
                 /\ channel' = <<>>]_vars

\* The IME hid itself while "hi" was being composed: the composition ended,
\* "hi" stayed and one update was sent.
C17_Witness ==
  /\ event.method = "handle-im-initiated-hide"
  /\ SessionActive
  /\ active_model[1].text = HiText(2)
  /\ active_model[1].selection = TextRange(2, 2)
  /\ ~active_model[1].composing
  /\ Len(channel) = 1
  /\ CarriesModel(channel[1], active_model[1])

\* Every notification of the step is sent for an active session and carries
\* its client id, and a performAction its input action; the id and the action
\* of the session change only in a setClient that succeeds.
NotificationsOfSession ==
  /\ \A i \in 1..Len(channel') :
       /\ SessionActive
       /\ SessionActive'
       /\ channel'[i].method \in {kUpdateEditingStateMethod, kPerformActionMethod}
       /\ channel'[i].clientId = client_id
       /\ channel'[i].method = kPerformActionMethod =>
            channel'[i].action = <<input_action>>
  /\ (client_id' # client_id \/ input_action' # input_action) =>
       (event'.method = kSetClientMethod /\ result' = kSuccess)

\* A setClient that succeeds leaves the id and the input action of its own
\* arguments; one that fails leaves those of the session before it.
SetClientInstalls ==
  \A args \in SetClientArgs :
    LET o == HandleMethodCall(kSetClientMethod, args, <<TRUE, TRUE>>)
    IN IF o.result = kSuccess
         THEN /\ o.client_id = args[1].id[2]
              /\ o.input_action =
                   IF args[1].config[2].inputAction[1] = "string"
                     THEN args[1].config[2].inputAction[2] ELSE ""
         ELSE /\ o.client_id = client_id
              /\ o.input_action = input_action

\* C18: under every interleaving of the events, updateEditingState and
\* performAction are sent only while a session is active and carry the client
\* id of the latest setClient that succeeded, and performAction carries the
\* input action that setClient parsed.
C18_NotificationsCarrySession ==
  []SetClientInstalls /\ [][NotificationsOfSession]_vars

\* ENTER in the session of client 7, set without an input action: the one
\* notification is performAction(7, "").
C18_Witness ==
  /\ event = Event("key", "OnKeyPressed", KEY_ENTER)
  /\ SessionActive
  /\ client_id = 7
  /\ input_action = ""
  /\ channel = <<Notification(kPerformActionMethod, 7, <<>>, <<"">>)>>

C20_ComposingRangeInText ==
  (SessionActive /\ active_model[1].composing_range # <<>>) =>
    /\ active_model[1].composing_range[1].base \in 0..Len(active_model[1].text)
    /\ active_model[1].composing_range[1].extent \in 0..Len(active_model[1].text)

====
